---------------------------- MODULE Spec2Model ----------------------------
(***************************************************************************)
(* A model of poopy.py: the Event life cycle (construction, validation,    *)
(* closing), a Monitor's current event, the 15-minute rounding functions,  *)
(* the resampling of a Monitor's history to the online / active /          *)
(* recently-active masks, the queries on a history (total_discharge,       *)
(* event_at), and the WaterCompany: its derived views, its lazily built    *)
(* flow accumulator and the downstream impact of the discharging monitors. *)
(*                                                                         *)
(* Instants are naive datetimes, modelled as whole seconds counted from an *)
(* instant that lies on the hour (second 0 is 08:00:00 of some day).       *)
(* A timedelta is a number of seconds.  A float number of minutes          *)
(* (total_seconds() / 60) is the fraction [num |-> seconds, den |-> 60].   *)
(***************************************************************************)
EXTENDS Integers, Sequences, FiniteSets, TLC

\* The largest number of Event objects the life-cycle specification builds.
MaxEvents == 1

\* The wall clock of the life-cycle specification runs over 0 .. MaxTicks
\* ticks of 90 seconds.
MaxTicks == 2

\* Python's None where an instant is expected (Event.__init__, end_time).
None == -1

\* No Event object (Monitor._current_event is None; no object was built).
NoEvent == 0

VARIABLES
    now,            \* datetime.datetime.now(), in seconds
    events,         \* the Event objects built so far, by identity 1..Len
    current_event,  \* Monitor._current_event: an identity, or NoEvent
    result,         \* what the last call did: [op, raised, target]
    time,           \* the argument of the rounding functions
    rounded,        \* what round_time_down_15 and round_time_up_15 returned
    history,        \* Monitor._history, in list order, or NoHistory
    since,          \* the argument of get_monitor_timeseries
    times,          \* the sample instants it builds, or NoTimes
    masks,          \* what Monitor._history_masks(times) returned or raised
    answer,         \* what the last total_discharge or event_at call did
    previous,       \* what the total_discharge call before it returned
    monitors,       \* the values of WaterCompany._active_monitors, in order
    accumulator,    \* WaterCompany._accumulator: "None" or "D8Accumulator"
    built,          \* how many times D8Accumulator(...) was constructed
    output          \* what the last call on the WaterCompany returned or raised

lifeVars == <<events, current_event, result>>
roundVars == <<time, rounded>>
maskVars == <<history, since, times, masks>>
queryVars == <<answer, previous>>
netVars == <<monitors, accumulator, built, output>>
vars == <<now, lifeVars, roundVars, maskVars, queryVars, netVars>>

-----------------------------------------------------------------------------
(* Event *)

EventTypes == {"Discharging", "Offline", "Not Discharging"}

\* The instants the life-cycle specification reads from the clock and passes
\* as start and end times.
Clock == {90 * k : k \in 0..MaxTicks}

\* total_seconds() / 60
Minutes(seconds) == [num |-> seconds, den |-> 60]

\* Event.duration raises TypeError when it subtracts from a missing end time.
duration_raises(ev) == (~ev.ongoing) /\ ev.end_time = None

\* Event.duration, read while the clock shows `clock`.
duration(ev, clock) ==
    IF ~ev.ongoing
      THEN Minutes(ev.end_time - ev.start_time)
      ELSE Minutes(clock - ev.start_time)

\* _validate with the comparison of the end time with the start time the
\* wrong way round.
_validate_flipped(ev) ==
    IF ev.ongoing /\ ev.end_time # None THEN "ValueError"
    ELSE IF ev.end_time # None /\ ev.end_time > ev.start_time THEN "ValueError"
    ELSE "None"

\* Event._validate: the exception it raises, or "None".
_validate(ev) ==
    IF ev.ongoing /\ ev.end_time # None THEN "ValueError"
    ELSE IF ev.end_time # None /\ ev.end_time < ev.start_time THEN "ValueError"
    ELSE "None"

\* The fields Event.__init__ assigns before it validates; the subclass
\* (Discharge, Offline, NoDischarge) sets the event type.
NewFields(o, s, e, ty) ==
    [ongoing |-> o, start_time |-> s, end_time |-> e, event_type |-> ty]

\* What Event.__init__ raises: TypeError from the read of self.duration
\* (line 390), else whatever _validate raises (line 392).
init_raises(o, s, e, ty) ==
    IF duration_raises(NewFields(o, s, e, ty)) THEN "TypeError"
    ELSE _validate(NewFields(o, s, e, ty))

\* Discharge(...), Offline(...), NoDischarge(...): Event.__init__.
Event_init(o, s, e, ty) ==
    /\ Len(events) < MaxEvents
    /\ IF init_raises(o, s, e, ty) = "None"
         THEN /\ events' = Append(events,
                     [ongoing |-> o, start_time |-> s, end_time |-> e,
                      event_type |-> ty,
                      duration |-> duration(NewFields(o, s, e, ty), now)])
              /\ result' = [op |-> "Event", raised |-> "None",
                            target |-> Len(events) + 1]
         ELSE /\ events' = events
              /\ result' = [op |-> "Event", raised |-> init_raises(o, s, e, ty),
                            target |-> NoEvent]
    /\ UNCHANGED <<now, current_event, roundVars, maskVars, queryVars, netVars>>

\* The three assignments of the ongoing setter (lines 467-469): the flag,
\* the end time read from the clock, and the duration read back.
Closed(ev, value, clock) ==
    [ev EXCEPT !.ongoing = value, !.end_time = clock,
               !.duration = duration([ev EXCEPT !.ongoing = value,
                                                !.end_time = clock], clock)]

\* The ongoing setter without the check that the event is still ongoing, so
\* that a closed event is closed again.
ongoing_setter_recloses(id, value) ==
    /\ id \in 1..Len(events)
    /\ IF value
         THEN /\ result' = [op |-> "ongoing", raised |-> "ValueError", target |-> id]
              /\ events' = events
         ELSE /\ events' = [events EXCEPT ![id] = Closed(events[id], value, now)]
              /\ result' = [op |-> "ongoing", raised |-> "None", target |-> id]
    /\ UNCHANGED <<now, current_event, roundVars, maskVars, queryVars, netVars>>

\* event.ongoing = value: the setter of Event.ongoing.
ongoing_setter(id, value) ==
    /\ id \in 1..Len(events)
    /\ IF value
         THEN /\ result' = [op |-> "ongoing", raised |-> "ValueError", target |-> id]
              /\ events' = events
         ELSE IF ~events[id].ongoing
           THEN /\ result' = [op |-> "ongoing", raised |-> "ValueError", target |-> id]
                /\ events' = events
           ELSE /\ events' = [events EXCEPT ![id] = Closed(events[id], value, now)]
                /\ result' = [op |-> "ongoing", raised |-> "None", target |-> id]
    /\ UNCHANGED <<now, current_event, roundVars, maskVars, queryVars, netVars>>

-----------------------------------------------------------------------------
(* Monitor *)

\* monitor.current_event = event: the setter of Monitor.current_event.
current_event_setter(id) ==
    /\ id \in 1..Len(events)
    /\ IF ~events[id].ongoing
         THEN /\ result' = [op |-> "current_event", raised |-> "ValueError",
                            target |-> id]
              /\ current_event' = current_event
         ELSE /\ current_event' = id
              /\ result' = [op |-> "current_event", raised |-> "None",
                            target |-> id]
    /\ UNCHANGED <<now, events, roundVars, maskVars, queryVars, netVars>>

-----------------------------------------------------------------------------
(* round_time_down_15, round_time_up_15 *)

\* datetime(time.year, time.month, time.day, time.hour, 0, 0, 0)
HourOf(t) == t - (t % 3600)

\* time.minute
MinuteOf(t) == (t % 3600) \div 60

round_time_down_15(t) ==
    LET minutes == IF MinuteOf(t) < 15 THEN 0
                   ELSE IF MinuteOf(t) < 30 THEN 15
                   ELSE IF MinuteOf(t) < 45 THEN 30
                   ELSE 45
    IN  HourOf(t) + 60 * minutes

round_time_up_15(t) ==
    IF MinuteOf(t) < 15 THEN HourOf(t) + 60 * 15
    ELSE IF MinuteOf(t) < 30 THEN HourOf(t) + 60 * 30
    ELSE IF MinuteOf(t) < 45 THEN HourOf(t) + 60 * 45
    ELSE HourOf(t + 3600)

-----------------------------------------------------------------------------
(* Monitor._history_masks *)

\* The sample instants were not built yet.
NoTimes == <<None>>

\* Monitor._history after Monitor.__init__ (None): no history was fetched.
\* It is told from every fetched history by the event it holds, which no
\* constructor builds.
NoHistory ==
    <<[ongoing |-> FALSE, start_time |-> None, end_time |-> None,
       event_type |-> "None"]>>

\* datetime.timedelta(minutes=15)
SampleSpacing == 900

\* datetime.timedelta(hours=48)
RecentWindow == 172800

\* The loop of get_monitor_timeseries that builds the sample instants:
\* since, since + 15 min, ... while the instant is before now.
SampleTimes(from, clock) ==
    IF from >= clock THEN <<>>
    ELSE [i \in 1..(((clock - from - 1) \div SampleSpacing) + 1) |->
            from + (i - 1) * SampleSpacing]

\* times.index(x) as a position 1..Len(times); 0 when x is not in the list
\* (list.index raises ValueError).
Index(ts, x) ==
    IF \E i \in 1..Len(ts) : ts[i] = x
      THEN CHOOSE i \in 1..Len(ts) : ts[i] = x /\ \A j \in 1..(i - 1) : ts[j] # x
      ELSE 0

\* mask[from:to] = value on positions 1..Len(mask): from inclusive, to
\* exclusive; an empty slice when to <= from.
SetSlice(mask, from, to, value) ==
    [i \in 1..Len(mask) |-> IF from <= i /\ i < to THEN value ELSE mask[i]]

\* np.zeros(len(times), dtype=bool)
Zeros(n) == [i \in 1..n |-> FALSE]

Raised(what) ==
    [raised |-> what, online |-> <<>>, active |-> <<>>, recent |-> <<>>]

\* The body of the loop over the history (lines 312-343) for one event that
\* is Discharging or Offline and does not end the loop: the masks after it,
\* or the ValueError of a times.index that finds nothing.
ApplyEvent(ev, ts, m) ==
    LET start_round == round_time_down_15(ev.start_time)
        s == Index(ts, start_round)
        n == Len(ts) + 1
    IN  IF ev.ongoing
          THEN IF s = 0 THEN Raised("ValueError")
               ELSE IF ev.event_type = "Discharging"
                 THEN [m EXCEPT !.active = SetSlice(m.active, s, n, TRUE),
                                !.recent = SetSlice(m.recent, s, n, TRUE)]
                 ELSE [m EXCEPT !.online = SetSlice(m.online, s, n, FALSE)]
          ELSE LET end_round == round_time_up_15(ev.end_time)
                   e == Index(ts, end_round)
                   recent_end == end_round + RecentWindow
                   r == Index(ts, recent_end)
               IN  IF s = 0 \/ e = 0 THEN Raised("ValueError")
                   ELSE IF ev.event_type = "Discharging"
                     THEN IF recent_end > ts[Len(ts)]
                            THEN [m EXCEPT !.active = SetSlice(m.active, s, e, TRUE),
                                           !.recent = SetSlice(m.recent, s, n, TRUE)]
                            ELSE IF r = 0 THEN Raised("ValueError")
                            ELSE [m EXCEPT !.active = SetSlice(m.active, s, e, TRUE),
                                           !.recent = SetSlice(m.recent, s, r, TRUE)]
                     ELSE [m EXCEPT !.online = SetSlice(m.online, s, e, FALSE)]

\* The loop over the history (lines 311-343) from position i on.
RECURSIVE WalkHistory(_, _, _, _)
WalkHistory(hist, ts, i, m) ==
    IF i > Len(hist) \/ m.raised # "None" THEN m
    ELSE IF hist[i].event_type \in {"Discharging", "Offline"}
      THEN IF round_time_down_15(hist[i].start_time) < ts[1]
             THEN m
             ELSE WalkHistory(hist, ts, i + 1, ApplyEvent(hist[i], ts, m))
      ELSE WalkHistory(hist, ts, i + 1, m)

\* The online mask after lines 304-309: online from the rounded start of the
\* last event of the list.
OnlineSince(hist, ts) ==
    LET first_event == round_time_down_15(hist[Len(hist)].start_time)
        n == Len(ts)
    IN  IF first_event < ts[1]
          THEN [raised |-> "None", online |-> [i \in 1..n |-> TRUE],
                active |-> Zeros(n), recent |-> Zeros(n)]
          ELSE IF Index(ts, first_event) = 0 THEN Raised("ValueError")
          ELSE [raised |-> "None",
                online |-> SetSlice(Zeros(n), Index(ts, first_event), n + 1, TRUE),
                active |-> Zeros(n), recent |-> Zeros(n)]

\* Monitor._history_masks(times): the three masks, or the exception raised;
\* reading the history property of a monitor whose history was never fetched
\* raises ValueError (line 300).
_history_masks(hist, ts) ==
    IF hist = NoHistory THEN Raised("ValueError")
    ELSE IF Len(hist) = 0
      THEN [raised |-> "None", online |-> Zeros(Len(ts)),
            active |-> Zeros(Len(ts)), recent |-> Zeros(Len(ts))]
    ELSE IF Len(ts) = 0 THEN Raised("IndexError")
    ELSE WalkHistory(hist, ts, 1, OnlineSince(hist, ts))

-----------------------------------------------------------------------------
(* The life-cycle specification *)

\* The wall clock moves on.
Tick ==
    /\ \E t \in Clock : t > now /\ now' = t
    /\ result' = [op |-> "tick", raised |-> "None", target |-> NoEvent]
    /\ UNCHANGED <<events, current_event, roundVars, maskVars, queryVars, netVars>>

\* Nothing was built, set or called yet.
LifeIdle ==
    /\ events = <<>>
    /\ current_event = NoEvent
    /\ result = [op |-> "init", raised |-> "None", target |-> NoEvent]

RoundIdle == time = None /\ rounded = [down |-> None, up |-> None]

MaskIdle ==
    /\ history = <<>> /\ since = None /\ times = NoTimes
    /\ masks = [raised |-> "not called", online |-> <<>>, active |-> <<>>,
                recent |-> <<>>]

\* What `answer` holds before any query.
NoAnswer == [op |-> "none", arg |-> None, raised |-> "None", value |-> None]

\* No query was made on a history.
QueryIdle == answer = NoAnswer /\ previous = NoAnswer

\* No WaterCompany exists.
NetIdle ==
    /\ monitors = <<>> /\ accumulator = "None" /\ built = 0
    /\ output = [op |-> "none", include |-> FALSE, raised |-> "None",
                 value |-> <<>>, source |-> <<>>, impact |-> <<>>,
                 channels |-> {}, features |-> <<>>]

Init == now \in Clock /\ LifeIdle /\ RoundIdle /\ MaskIdle /\ QueryIdle /\ NetIdle

\* A constructor call with any arguments: Event.__init__ compares neither
\* the start time nor the end time with the clock.
Construct ==
    \E o \in BOOLEAN, s \in Clock, e \in Clock \cup {None}, ty \in EventTypes :
        Event_init(o, s, e, ty)

SetOngoing == \E id \in 1..MaxEvents, value \in BOOLEAN : ongoing_setter(id, value)

SetCurrentEvent == \E id \in 1..MaxEvents : current_event_setter(id)

Next == Construct \/ SetOngoing \/ SetCurrentEvent \/ Tick

Spec == Init /\ [][Next]_vars

-----------------------------------------------------------------------------
(* Claims about the Event life cycle, checked under Spec *)

Ids == 1..Len(events)

\* C1: constructing an Event raises ValueError whenever ongoing is true and
\* an end time is given, or the end time is earlier than the start time, and
\* builds no object then; an Event that is built has no end time if it is
\* ongoing, and an end time not earlier than its start time if it has one.
C1_ConstructionValidated ==
    [][result'.op = "Event" =>
         /\ \A o \in BOOLEAN, s \in Clock, e \in Clock, ty \in EventTypes :
               ((o \/ e < s) /\ Event_init(o, s, e, ty)) =>
                   (result'.raised = "ValueError" /\ events' = events)
         /\ result'.raised = "None" =>
               LET ev == events'[result'.target] IN
                 /\ ev.ongoing => ev.end_time = None
                 /\ ev.end_time # None => ev.end_time >= ev.start_time]_vars

\* C1's case: a construction asked for an invalid Event and was refused with
\* ValueError, leaving no object behind.
C1_Witness ==
    /\ result.op = "Event" /\ result.raised = "ValueError"
    /\ result.target = NoEvent /\ events = <<>>

\* C2: only the close of an ongoing event succeeds, setting ongoing to
\* false and the end time to the closing instant; a close of a closed event
\* and any attempt to set ongoing to true raise ValueError and change
\* nothing; no step makes a closed event ongoing or changes its end time.
C2_ClosedOnce ==
    [][\A id \in Ids :
          /\ ~events[id].ongoing =>
                (~events'[id].ongoing /\ events'[id].end_time = events[id].end_time)
          /\ \A value \in BOOLEAN :
                ongoing_setter(id, value) =>
                  IF events[id].ongoing /\ ~value
                    THEN /\ result'.raised = "None"
                         /\ ~events'[id].ongoing
                         /\ events'[id].end_time = now
                    ELSE /\ result'.raised = "ValueError"
                         /\ events' = events]_vars

\* C2's case: an event was closed and, after the clock moved on, a further
\* close of it was refused.
C2_Witness ==
    /\ result.op = "ongoing" /\ result.raised = "ValueError"
    /\ ~events[result.target].ongoing
    /\ events[result.target].end_time < now

\* C3: closing an ongoing event at an instant before its start time raises
\* and leaves it ongoing, closing it at or after its start time succeeds, and
\* so no closed event has an end time before its start time.
C3_CloseValidatesInstant ==
    [][/\ \A id \in Ids :
            (events[id].ongoing /\ ongoing_setter(id, FALSE)) =>
              IF now < events[id].start_time
                THEN result'.raised = "ValueError" /\ events' = events
                ELSE result'.raised = "None" /\ ~events'[id].ongoing
       /\ \A id \in 1..Len(events') :
            ~events'[id].ongoing => events'[id].end_time >= events'[id].start_time]_vars

\* C4: the monitor's current event, if set, is ongoing in every reachable
\* state, and setting a non-ongoing event as current raises and keeps the
\* previous current event.
C4_CurrentEventOngoing ==
    [][/\ current_event' # NoEvent => events'[current_event'].ongoing
       /\ \A id \in Ids :
            (~events[id].ongoing /\ current_event_setter(id)) =>
              (result'.raised = "ValueError" /\ current_event' = current_event)]_vars

\* C5: whatever the clock shows, the duration of an event is end - start
\* minutes when it is closed and now - start minutes when it is ongoing, and
\* it is never negative.
C5_DurationNonNegative ==
    \A id \in Ids :
        /\ duration(events[id], now) =
              (IF events[id].ongoing
                 THEN Minutes(now - events[id].start_time)
                 ELSE Minutes(events[id].end_time - events[id].start_time))
        /\ duration(events[id], now).num >= 0

-----------------------------------------------------------------------------
(* The rounding specification: both functions applied to every instant *)

\* The rounding specification rounds every instant of 0 .. LastSecond
\* (08:00:00 to 11:00:00).
LastSecond == 10800

RoundDown ==
    /\ rounded.down = None
    /\ rounded' = [rounded EXCEPT !.down = round_time_down_15(time)]
    /\ UNCHANGED <<now, time, lifeVars, maskVars, queryVars, netVars>>

RoundUp ==
    /\ rounded.up = None
    /\ rounded' = [rounded EXCEPT !.up = round_time_up_15(time)]
    /\ UNCHANGED <<now, time, lifeVars, maskVars, queryVars, netVars>>

InitRound ==
    /\ now = 0 /\ LifeIdle /\ MaskIdle /\ QueryIdle /\ NetIdle
    /\ time \in 0..LastSecond
    /\ rounded = [down |-> None, up |-> None]

NextRound == RoundDown \/ RoundUp

SpecRound == InitRound /\ [][NextRound]_vars

\* C6: round-down returns the greatest 15-minute grid instant at or below
\* t and round-up the least 15-minute grid instant at or above t (an instant
\* on the grid is returned unchanged by both), round-up reaching into the
\* next hour only for an instant after minute 45; 10:07 -> 10:00 and
\* 10:16 -> 10:15 rounding down, 10:46 -> 11:00 rounding up.
C6_RoundsToGrid ==
    /\ rounded.down # None =>
         /\ rounded.down % SampleSpacing = 0
         /\ rounded.down <= time /\ time < rounded.down + SampleSpacing
         /\ time = 7620 => rounded.down = 7200
         /\ time = 8160 => rounded.down = 8100
    /\ rounded.up # None =>
         /\ rounded.up % SampleSpacing = 0
         /\ rounded.up >= time /\ time > rounded.up - SampleSpacing
         /\ HourOf(rounded.up) # HourOf(time) => time % 3600 > 2700
         /\ time = 9960 => rounded.up = 10800

-----------------------------------------------------------------------------
(* The resampling specification: get_history and _history_masks *)

\* The longest history the resampling specification fetches.
MaxHist == 2

\* Start and end times of the fetched events: 08:50, 09:00 and 09:20.
MaskInstants == {3000, 3600, 4800}

\* The first sample: 09:00, on the quarter-hour grid, or 09:02, off it.
MaskSince == {3600, 3720}

\* The clock when the samples are built: 10:01 or 10:31.
MaskNow == {7260, 9060}

\* The events a history can hold: those Event.__init__ builds.
HistoryEvents ==
    {ev \in [ongoing : BOOLEAN, start_time : MaskInstants,
             end_time : MaskInstants \cup {None}, event_type : EventTypes] :
        init_raises(ev.ongoing, ev.start_time, ev.end_time, ev.event_type) = "None"}

Histories == UNION {[1..n -> HistoryEvents] : n \in 0..MaxHist}

\* Monitor.get_history(): the history becomes the list that
\* _get_monitor_history returns, whatever it was before.
get_history(fetched) == history' = fetched

\* monitor.get_history() on the monitor that is resampled; masks returned
\* before describe the history as it was, and are forgotten.
GetMaskHistory ==
    /\ \E fetched \in Histories : get_history(fetched)
    /\ masks' = [raised |-> "not called", online |-> <<>>, active |-> <<>>,
                 recent |-> <<>>]
    /\ UNCHANGED <<now, since, times, lifeVars, roundVars, queryVars, netVars>>

\* get_monitor_timeseries builds the sample instants (lines 826-831).
BuildTimes ==
    /\ times = NoTimes
    /\ times' = SampleTimes(since, now)
    /\ UNCHANGED <<now, history, since, masks, lifeVars, roundVars, queryVars, netVars>>

\* get_monitor_timeseries resamples the monitor's history (line 839).
HistoryMasks ==
    /\ times # NoTimes
    /\ masks.raised = "not called"
    /\ masks' = _history_masks(history, times)
    /\ UNCHANGED <<now, history, since, times, lifeVars, roundVars, queryVars, netVars>>

\* A Monitor as Monitor.__init__ leaves it: no history was fetched.
InitMasks ==
    /\ now \in MaskNow /\ LifeIdle /\ RoundIdle /\ QueryIdle /\ NetIdle
    /\ history = NoHistory
    /\ since \in MaskSince
    /\ times = NoTimes
    /\ masks = [raised |-> "not called", online |-> <<>>, active |-> <<>>,
                recent |-> <<>>]

NextMasks == GetMaskHistory \/ BuildTimes \/ HistoryMasks

SpecMasks == InitMasks /\ [][NextMasks]_vars

Returned == masks.raised = "None"

Samples == 1..Len(times)

\* C7: for sample instants 15 minutes apart, on the quarter-hour grid or not,
\* and any fetched history, the resampler returns three masks as long as the
\* sample sequence instead of raising.
C7_MasksReturned ==
    (masks.raised # "not called" /\ history # NoHistory) =>
        /\ masks.raised = "None"
        /\ Len(masks.online) = Len(times)
        /\ Len(masks.active) = Len(times)
        /\ Len(masks.recent) = Len(times)

\* C8: for a Discharging event of the history with first sample <= start
\* and end <= last sample, every sample in [round_down(start), round_up(end))
\* is active in the returned masks.
C8_CoverageGuarantee ==
    Returned =>
        \A i \in 1..Len(history) :
            LET ev == history[i] IN
            (/\ ev.event_type = "Discharging" /\ ~ev.ongoing
             /\ times[1] <= ev.start_time
             /\ ev.end_time <= times[Len(times)]) =>
                \A k \in Samples :
                    (/\ round_time_down_15(ev.start_time) <= times[k]
                     /\ times[k] < round_time_up_15(ev.end_time)) =>
                        masks.active[k]

\* C9: when the history is one closed Discharging event, the returned
\* active mask is true at exactly the samples in
\* [round_down(start), round_up(end)).
C9_SingleEventWindow ==
    (/\ Returned /\ Len(history) = 1
     /\ history[1].event_type = "Discharging" /\ ~history[1].ongoing) =>
        \A k \in Samples :
            masks.active[k] <=>
                (/\ round_time_down_15(history[1].start_time) <= times[k]
                 /\ times[k] < round_time_up_15(history[1].end_time))

Positive(ev) == ev.event_type \in {"Discharging", "Offline"}

\* C10: the returned online mask is false at every sample before the
\* rounded-down start of the monitor's first Discharging or Offline event.
C10_OfflineBeforeFirstPositive ==
    Returned =>
        \A k \in Samples :
            (/\ \E i \in 1..Len(history) : Positive(history[i])
             /\ \A i \in 1..Len(history) :
                    Positive(history[i]) =>
                        times[k] < round_time_down_15(history[i].start_time)) =>
                ~masks.online[k]

-----------------------------------------------------------------------------
(* Monitor.total_discharge, Monitor.event_at *)

\* datetime.datetime(2000, 1, 1), the cutoff total_discharge takes when it
\* is given none, with second 0 taken to be 08:00:00 on 2 January 2000.
LongAgo == -115200

\* The seconds one event of the history adds to the total: the body of the
\* loop of total_discharge.
Contribution(ev, cutoff, clock) ==
    IF ev.event_type # "Discharging" THEN 0
    ELSE IF ev.ongoing
      THEN IF ev.start_time < cutoff
             THEN clock - cutoff
             ELSE duration(ev, clock).num
    ELSE IF ev.end_time < cutoff THEN 0
    ELSE IF ev.end_time > cutoff /\ ev.start_time < cutoff
      THEN ev.end_time - cutoff
    ELSE IF ev.end_time > cutoff THEN duration(ev, clock).num
    ELSE 0

\* The loop of total_discharge over the events from position i on.
RECURSIVE SumFrom(_, _, _, _)
SumFrom(hist, i, cutoff, clock) ==
    IF i > Len(hist) THEN 0
    ELSE Contribution(hist[i], cutoff, clock) + SumFrom(hist, i + 1, cutoff, clock)

\* Monitor.total_discharge(since), called while the clock shows `clock`:
\* minutes, or the ValueError of the history property (line 166) when no
\* history was fetched.
total_discharge(hist, cutoff, clock) ==
    IF hist = NoHistory THEN [raised |-> "ValueError", value |-> None]
    ELSE [raised |-> "None",
          value |-> Minutes(SumFrom(hist, 1,
                        IF cutoff = None THEN LongAgo ELSE cutoff, clock))]

\* The test event_at makes on one event: the ongoing branch, else the
\* closed branch, whose second comparison is only made after the first holds.
Matches(ev, t) ==
    IF ev.ongoing /\ t > ev.start_time THEN TRUE
    ELSE ev.start_time < t /\ t < ev.end_time

\* The loop of event_at from position i on; `out` is the event found so far.
RECURSIVE ScanFrom(_, _, _, _)
ScanFrom(hist, i, t, out) ==
    IF i > Len(hist) THEN out
    ELSE ScanFrom(hist, i + 1, t, IF Matches(hist[i], t) THEN i ELSE out)

\* event_at that returns at the first event it finds.
event_at_first(hist, t) ==
    IF hist = NoHistory THEN [raised |-> "ValueError", value |-> None]
    ELSE [raised |-> "None",
          value |-> IF \E i \in 1..Len(hist) : Matches(hist[i], t)
                      THEN CHOOSE i \in 1..Len(hist) :
                               /\ Matches(hist[i], t)
                               /\ \A j \in 1..(i - 1) : ~Matches(hist[j], t)
                      ELSE NoEvent]

\* Monitor.event_at(time): the event returned, by its position in the
\* history, or NoEvent for None; the ValueError of the history property
\* (line 271) when no history was fetched.
event_at(hist, t) ==
    IF hist = NoHistory THEN [raised |-> "ValueError", value |-> None]
    ELSE [raised |-> "None", value |-> ScanFrom(hist, 1, t, NoEvent)]

\* The instants of the events of a queried history: 09:00, 09:30, 10:00.
QueryInstants == {3600, 5400, 7200}

\* The clock during the queries: 09:30 or 10:00.
QueryNow == {5400, 7200}

\* The cutoffs passed to total_discharge: none, or one of the instants.
SinceArgs == {None} \cup QueryInstants

\* The instants passed to event_at: the instants of the events and the
\* instants halfway between them (09:15, 09:45).
AtArgs == QueryInstants \cup {4500, 6300}

\* The events a fetched history can hold: those Event.__init__ builds, of
\* the given types.
QueryEvents(types) ==
    {ev \in [ongoing : BOOLEAN, start_time : QueryInstants,
             end_time : QueryInstants \cup {None}, event_type : types] :
        init_raises(ev.ongoing, ev.start_time, ev.end_time, ev.event_type) = "None"}

\* The histories fetched for total_discharge: discharges and other events.
QueryHistories ==
    UNION {[1..n -> QueryEvents({"Discharging", "Not Discharging"})] :
              n \in 0..MaxHist}

\* The histories fetched for event_at, which does not read the type of an
\* event.
EventAtHistories ==
    UNION {[1..n -> QueryEvents({"Discharging"})] : n \in 0..MaxHist}

\* A Monitor as Monitor.__init__ leaves it: no history was fetched, no
\* query was made.
InitQuery ==
    /\ now \in QueryNow /\ history = NoHistory
    /\ since = None /\ times = NoTimes
    /\ masks = [raised |-> "not called", online |-> <<>>, active |-> <<>>,
                recent |-> <<>>]
    /\ LifeIdle /\ RoundIdle /\ QueryIdle /\ NetIdle

\* monitor.get_history(), at any time: the answers given before describe
\* the history as it was, and are forgotten.
FetchHistory(histories) ==
    /\ \E fetched \in histories : get_history(fetched)
    /\ answer' = NoAnswer
    /\ previous' = NoAnswer
    /\ UNCHANGED <<now, since, times, masks, lifeVars, roundVars, netVars>>

GetHistory == FetchHistory(QueryHistories)

\* monitor.total_discharge(since)
TotalDischarge ==
    \E s \in SinceArgs :
        /\ answer' = [op |-> "total_discharge", arg |-> s,
                      raised |-> total_discharge(history, s, now).raised,
                      value |-> total_discharge(history, s, now).value]
        /\ previous' = answer
        /\ UNCHANGED <<now, lifeVars, roundVars, maskVars, netVars>>

\* event.ongoing = False on an ongoing event of the history: the flag and
\* the end time read from the clock (lines 467-468).  The totals returned
\* before describe the history as it was, and are forgotten.
CloseHistoryEvent ==
    \E i \in 1..Len(history) :
        /\ history # NoHistory
        /\ history[i].ongoing
        /\ history' = [history EXCEPT ![i] =
                          [@ EXCEPT !.ongoing = FALSE, !.end_time = now]]
        /\ answer' = NoAnswer
        /\ previous' = NoAnswer
        /\ UNCHANGED <<now, since, times, masks, lifeVars, roundVars, netVars>>

NextDischarge == GetHistory \/ TotalDischarge \/ CloseHistoryEvent

SpecDischarge == InitQuery /\ [][NextDischarge]_vars

GetEventHistory == FetchHistory(EventAtHistories)

\* monitor.event_at(time)
EventAt ==
    \E t \in AtArgs :
        /\ answer' = [op |-> "event_at", arg |-> t,
                      raised |-> event_at(history, t).raised,
                      value |-> event_at(history, t).value]
        /\ UNCHANGED <<now, previous, lifeVars, roundVars, maskVars, netVars>>

NextEventAt == GetEventHistory \/ EventAt \/ CloseHistoryEvent

SpecEventAt == InitQuery /\ [][NextEventAt]_vars

\* The cutoff total_discharge works with.
CutoffOf(arg) == IF arg = None THEN LongAgo ELSE arg

\* The seconds of the interval of an event (to the clock, when it is
\* ongoing) that lie within [cutoff, clock].
Clipped(ev, cutoff, clock) ==
    LET upto == IF ev.ongoing THEN clock ELSE ev.end_time
        lo == IF ev.start_time > cutoff THEN ev.start_time ELSE cutoff
        hi == IF upto < clock THEN upto ELSE clock
    IN  IF hi > lo THEN hi - lo ELSE 0

RECURSIVE ClippedFrom(_, _, _, _)
ClippedFrom(hist, i, cutoff, clock) ==
    IF i > Len(hist) THEN 0
    ELSE (IF hist[i].event_type = "Discharging"
            THEN Clipped(hist[i], cutoff, clock) ELSE 0)
         + ClippedFrom(hist, i + 1, cutoff, clock)

\* C11: the total discharge of a fetched history since a cutoff is the sum,
\* over the Discharging events of the history only, of the length of each
\* event's interval clipped to [since, now], and is therefore never negative.
C11_ClippedTotal ==
    (answer.op = "total_discharge" /\ history # NoHistory) =>
        /\ answer.raised = "None"
        /\ answer.value = Minutes(ClippedFrom(history, 1, CutoffOf(answer.arg), now))
        /\ answer.value.num >= 0

\* C12: for a fixed history and clock, a later cutoff never gives a larger
\* total: s1 <= s2 implies total_discharge(s1) >= total_discharge(s2).
C12_Monotonic ==
    (/\ answer.op = "total_discharge" /\ previous.op = "total_discharge"
     /\ answer.raised = "None" /\ previous.raised = "None") =>
        /\ CutoffOf(previous.arg) <= CutoffOf(answer.arg) =>
               previous.value.num >= answer.value.num
        /\ CutoffOf(answer.arg) <= CutoffOf(previous.arg) =>
               answer.value.num >= previous.value.num

\* Whether the instant lies strictly inside the interval of the event; the
\* interval of an ongoing event has no end.
Contains(ev, t) ==
    /\ ev.start_time < t
    /\ ev.ongoing \/ t < ev.end_time

\* C13: on a fetched history event_at(t) returns the last event in history
\* order whose interval strictly contains t (an ongoing event contains every
\* t after its start, a closed event the t with start < t < end), nothing
\* when there is none, and it leaves the history as it was.
C13_LastContaining ==
    [][answer'.op = "event_at" =>
          /\ history' = history
          /\ history # NoHistory =>
                /\ answer'.raised = "None"
                /\ IF \E i \in 1..Len(history) : Contains(history[i], answer'.arg)
                     THEN /\ answer'.value \in 1..Len(history)
                          /\ Contains(history[answer'.value], answer'.arg)
                          /\ \A j \in (answer'.value + 1)..Len(history) :
                                 ~Contains(history[j], answer'.arg)
                     ELSE answer'.value = NoEvent]_vars

\* event_at returned the later of two events that both contain the instant.
C13_Witness ==
    /\ answer.op = "event_at"
    /\ answer.raised = "None"
    /\ answer.value = 2
    /\ Contains(history[1], answer.arg)
    /\ Contains(history[2], answer.arg)

-----------------------------------------------------------------------------
(* WaterCompany: the derived views *)

\* The site names of the monitors a WaterCompany can hold, in the order the
\* API lists them; _active_monitors is a dictionary keyed by site name.
MonitorNames == <<"A", "B">>

\* Monitor._current_event of a monitor whose current event was never set.
NoCurrentEvent == [ongoing |-> FALSE, event_type |-> "None"]

\* Monitor.current_status: the type of the current event; reading the type
\* of no event raises AttributeError.
current_status(monitor) ==
    IF monitor.current_event = NoCurrentEvent THEN "AttributeError"
    ELSE monitor.current_event.event_type

\* The positions 1 .. Len of the active monitors, in the order of the
\* dictionary's values.
Values(fleet) == [i \in 1..Len(fleet) |-> i]

\* WaterCompany.discharging_monitors: the monitors kept, by position, or the
\* exception the first unreadable status raises.
discharging_monitors(fleet) ==
    IF \E i \in 1..Len(fleet) : current_status(fleet[i]) = "AttributeError"
      THEN [raised |-> "AttributeError", value |-> <<>>]
      ELSE [raised |-> "None",
            value |-> SelectSeq(Values(fleet),
                          LAMBDA i : current_status(fleet[i]) = "Discharging")]

\* WaterCompany.recently_discharging_monitors: the monitors whose flag is
\* truthy; an unset flag (None) is returned with a warning and is falsy.
recently_discharging_monitors(fleet) ==
    [raised |-> "None",
     value |-> SelectSeq(Values(fleet),
                   LAMBDA i : fleet[i].discharge_in_last_48h = "True")]

-----------------------------------------------------------------------------
(* D8Accumulator: the flow-accumulation engine on a grid of two rows of    *)
(* three cells, numbered row by row from 1:                                *)
(*        1 -> 2 -> 3        cells 1 and 4 both drain to cell 2,           *)
(*        4 /  5 -> 6        cells 3 and 6 are outlets.                    *)

\* The cell each cell drains to; an outlet drains to itself.
Receivers == <<2, 3, 3, 2, 6, 6>>

Nodes == 1..Len(Receivers)

\* The number of cells in a row of the grid.
Columns == 3

\* coord_to_node(x, y): the cell that holds the point; a cell is two units
\* wide and one unit high.
coord_to_node(x, y) == Columns * y + (x \div 2) + 1

\* get_profile(node)[0]: the nodes from the node itself down to the outlet.
RECURSIVE get_profile(_)
get_profile(node) ==
    IF Receivers[node] = node THEN <<node>>
    ELSE <<node>> \o get_profile(Receivers[node])

\* The profile of every node.
Profiles == [node \in Nodes |-> get_profile(node)]

\* Whether the cell is the node or lies downstream of it.
OnProfile(cell, node) ==
    \E k \in 1..Len(Profiles[node]) : Profiles[node][k] = cell

\* The sum of the grid's values over the nodes 1 .. n that drain through
\* the cell.
RECURSIVE UpstreamSum(_, _, _)
UpstreamSum(grid, cell, n) ==
    IF n = 0 THEN 0
    ELSE (IF OnProfile(cell, n) THEN grid[n] ELSE 0) + UpstreamSum(grid, cell, n - 1)

\* accumulate(grid): per cell, the sum of the values of the cell and of
\* every cell upstream of it.
accumulate(grid) == [cell \in Nodes |-> UpstreamSum(grid, cell, Len(Receivers))]

\* get_channel_segments(grid, threshold): the cells whose value exceeds the
\* threshold; the threshold is the fraction num / den.
get_channel_segments(grid, threshold) ==
    {cell \in Nodes : grid[cell] * threshold.den > threshold.num}

-----------------------------------------------------------------------------
(* WaterCompany: the downstream impact *)

\* threshold=0.9, the threshold get_downstream_geojson extracts channels at.
ChannelThreshold == [num |-> 9, den |-> 10]

\* The accumulator property that constructs a D8Accumulator at every read.
accumulator_uncached(cached, constructions) ==
    [accumulator |-> "D8Accumulator", built |-> constructions + 1]

\* The accumulator property: the cached field and the number of
\* constructions after the read.
accumulator_property(cached, constructions) ==
    IF cached = "None"
      THEN [accumulator |-> "D8Accumulator", built |-> constructions + 1]
      ELSE [accumulator |-> cached, built |-> constructions]

\* The node of a monitor of the fleet.
NodeOf(fleet, i) == coord_to_node(fleet[i].x_coord, fleet[i].y_coord)

\* WaterCompany._calculate_downstream_impact(include_recent_discharges):
\* the exception raised, the source array and the array returned.
_calculate_downstream_impact(fleet, include) ==
    LET selected == IF ~include THEN discharging_monitors(fleet)
                    ELSE recently_discharging_monitors(fleet)
        source_nodes == [k \in 1..Len(selected.value) |->
                            NodeOf(fleet, selected.value[k])]
        source_array == [n \in Nodes |->
                            IF \E k \in 1..Len(source_nodes) : source_nodes[k] = n
                              THEN 1 ELSE 0]
    IN  IF selected.raised # "None"
          THEN [raised |-> selected.raised, source |-> <<>>, impact |-> <<>>]
          ELSE [raised |-> "None", source |-> source_array,
                impact |-> accumulate(source_array)]

\* WaterCompany.get_downstream_geojson(include_recent_discharges): the
\* exception raised and the channels returned; `cached` is the field
\* _accumulator as the impact calculation left it.
get_downstream_geojson(fleet, include, cached) ==
    LET calculated == _calculate_downstream_impact(fleet, include)
    IN  IF calculated.raised # "None"
          THEN [raised |-> calculated.raised, channels |-> {}]
        ELSE IF cached = "None"
          THEN [raised |-> "AttributeError", channels |-> {}]
        ELSE [raised |-> "None",
              channels |-> get_channel_segments(calculated.impact, ChannelThreshold)]

\* accumulate(areas), the area that drains through each cell, in cells.
DrainageArea == accumulate([n \in Nodes |-> 1])

\* WaterCompany.get_downstream_info_geojson(include_recent_discharges): the
\* exception raised and the features returned, one record per feature; the
\* drainage area is counted in cells.
get_downstream_info_geojson(fleet, include) ==
    LET drainage_area == DrainageArea
        calculated == _calculate_downstream_impact(fleet, include)
        impact == calculated.impact
        dstream_nodes == SelectSeq([n \in Nodes |-> n], LAMBDA n : impact[n] > 0)
        sources == IF include THEN recently_discharging_monitors(fleet)
                   ELSE discharging_monitors(fleet)
        upstream(node) == SelectSeq(sources.value,
                              LAMBDA i : OnProfile(node, NodeOf(fleet, i)))
        CSOs(node) == [k \in 1..Len(upstream(node)) |->
                          fleet[upstream(node)[k]].site_name]
    IN  IF calculated.raised # "None"
          THEN [raised |-> calculated.raised, features |-> <<>>]
        ELSE IF \E k \in 1..Len(sources.value) : \E node \in Nodes :
                    /\ OnProfile(node, NodeOf(fleet, sources.value[k]))
                    /\ impact[node] = 0
          THEN [raised |-> "KeyError", features |-> <<>>]
        ELSE [raised |-> "None",
              features |->
                  [k \in 1..Len(dstream_nodes) |->
                      [node |-> dstream_nodes[k],
                       number_upstream_CSOs |-> impact[dstream_nodes[k]],
                       number_CSOs_per_km2 |->
                           [num |-> impact[dstream_nodes[k]],
                            den |-> drainage_area[dstream_nodes[k]]],
                       CSOs |-> CSOs(dstream_nodes[k])]]]

\* What a call on the WaterCompany left in `output`.
Out(op, include, raised) ==
    [op |-> op, include |-> include, raised |-> raised, value |-> <<>>,
     source |-> <<>>, impact |-> <<>>, channels |-> {}, features |-> <<>>]

\* The coordinates of the monitors: two points in cell 1, one in cell 2 and
\* one in cell 4.
Sites == {<<0, 0>>, <<1, 0>>, <<2, 0>>, <<0, 1>>}

\* The current events _fetch_active_monitors leaves on a monitor.
CurrentEvents ==
    {NoCurrentEvent} \cup
    [ongoing : {TRUE}, event_type : {"Discharging", "Not Discharging"}]

\* The status and the 48h flag _fetch_active_monitors leaves on a monitor.
Statuses ==
    [current_event : CurrentEvents, discharge_in_last_48h : {"True", "False"}]

\* Monitor(...) with a site name, at a site, with the status fetched for it.
MonitorAt(name, site, status) ==
    [site_name |-> name, x_coord |-> site[1], y_coord |-> site[2],
     current_event |-> status.current_event,
     discharge_in_last_48h |-> status.discharge_in_last_48h]

\* The keys of a dictionary _fetch_active_monitors can return, as positions
\* in MonitorNames: any of the names, none and all included, each once.
NameLists ==
    {names \in UNION {[1..n -> 1..Len(MonitorNames)] : n \in 0..Len(MonitorNames)} :
        \A i, j \in 1..Len(names) : i < j => names[i] < names[j]}

\* The dictionaries _fetch_active_monitors can return, as the sequences of
\* their values: monitors at the given sites with the given statuses.
FleetsOf(sites, statuses) ==
    UNION {{[i \in 1..Len(names) |->
                MonitorAt(MonitorNames[names[i]], at[i], fetched[i])] :
              at \in [1..Len(names) -> sites],
              fetched \in [1..Len(names) -> statuses]} :
           names \in NameLists}

Fleets == FleetsOf(Sites, Statuses)

\* WaterCompany.__init__: the monitors are fetched, no accumulator exists.
InitNet ==
    /\ now = 0 /\ LifeIdle /\ RoundIdle /\ MaskIdle /\ QueryIdle
    /\ monitors \in Fleets
    /\ accumulator = "None" /\ built = 0
    /\ output = Out("__init__", FALSE, "None")

\* company._calculate_downstream_impact(include_recent_discharges)
CalculateImpact ==
    \E include \in BOOLEAN :
        LET read == accumulator_property(accumulator, built)
            calculated == _calculate_downstream_impact(monitors, include)
        IN  /\ accumulator' = read.accumulator
            /\ built' = read.built
            /\ output' = [Out("_calculate_downstream_impact", include,
                              calculated.raised)
                            EXCEPT !.source = calculated.source,
                                   !.impact = calculated.impact]
            /\ UNCHANGED <<now, monitors, lifeVars, roundVars, maskVars, queryVars>>

\* company.get_downstream_geojson(include_recent_discharges)
GetDownstreamGeojson ==
    \E include \in BOOLEAN :
        LET read == accumulator_property(accumulator, built)
            returned == get_downstream_geojson(monitors, include, read.accumulator)
        IN  /\ accumulator' = read.accumulator
            /\ built' = read.built
            /\ output' = [Out("get_downstream_geojson", include, returned.raised)
                            EXCEPT !.channels = returned.channels]
            /\ UNCHANGED <<now, monitors, lifeVars, roundVars, maskVars, queryVars>>

\* company.get_downstream_info_geojson(include_recent_discharges)
GetDownstreamInfoGeojson ==
    \E include \in BOOLEAN :
        LET read == accumulator_property(accumulator, built)
            returned == get_downstream_info_geojson(monitors, include)
        IN  /\ accumulator' = read.accumulator
            /\ built' = read.built
            /\ output' = [Out("get_downstream_info_geojson", include,
                              returned.raised)
                            EXCEPT !.features = returned.features]
            /\ UNCHANGED <<now, monitors, lifeVars, roundVars, maskVars, queryVars>>

\* WaterCompany.update(): the monitors become the dictionary that
\* _fetch_active_monitors returns, whatever they were before (an empty fleet
\* included); the accumulator field is not assigned.
update(fleets) ==
    /\ \E fetched \in fleets : monitors' = fetched
    /\ output' = Out("update", FALSE, "None")
    /\ UNCHANGED <<now, accumulator, built, lifeVars, roundVars, maskVars,
                   queryVars>>

\* company.update()
Update == update(Fleets)

NextNet ==
    \/ CalculateImpact
    \/ GetDownstreamGeojson
    \/ GetDownstreamInfoGeojson
    \/ Update

SpecNet == InitNet /\ [][NextNet]_vars

\* The monitors of the fleet that are discharging now: their current event
\* is an ongoing Discharging event.
Discharging(fleet) ==
    {i \in 1..Len(fleet) :
        /\ fleet[i].current_event.ongoing
        /\ fleet[i].current_event.event_type = "Discharging"}

\* The monitors of the fleet whose 48h flag is true.
Recent(fleet) ==
    {i \in 1..Len(fleet) : fleet[i].discharge_in_last_48h = "True"}

\* The monitors among `chosen` that the cell lies downstream of, the cell
\* of the monitor included.
Above(cell, chosen) ==
    {i \in chosen : OnProfile(cell, NodeOf(monitors, i))}

\* C14: when two monitors at distinct coordinates are both discharging, the
\* impact grid holds 2 at every cell downstream of both, 1 at every cell
\* downstream of exactly one, and 0 at every other cell.
C14_TwoSources ==
    \A i, j \in 1..Len(monitors) :
        ( /\ output.op = "_calculate_downstream_impact"
          /\ ~output.include
          /\ output.raised = "None"
          /\ i # j
          /\ Discharging(monitors) = {i, j}
          /\ <<monitors[i].x_coord, monitors[i].y_coord>> #
                 <<monitors[j].x_coord, monitors[j].y_coord>> ) =>
            \A cell \in Nodes :
                output.impact[cell] = Cardinality(Above(cell, {i, j}))

\* The operations of the propagator.
Propagations ==
    {"_calculate_downstream_impact", "get_downstream_geojson",
     "get_downstream_info_geojson"}

\* C15: when the selected monitor set (the discharging monitors, or the
\* recently discharging ones when that option is chosen) is empty, the
\* propagator does not fail: source grid and impact grid are all zero, the
\* impacted-node collection is empty and channel extraction yields no
\* geometry.
C15_EmptySelection ==
    ( /\ output.op \in Propagations
      /\ (IF output.include THEN Recent(monitors)
          ELSE Discharging(monitors)) = {} ) =>
        /\ output.raised = "None"
        /\ output.op = "_calculate_downstream_impact" =>
               \A cell \in Nodes :
                   output.source[cell] = 0 /\ output.impact[cell] = 0
        /\ output.op = "get_downstream_geojson" => output.channels = {}
        /\ output.op = "get_downstream_info_geojson" => output.features = <<>>

\* C17: over any sequence of network operations the accumulator is not
\* constructed before its first use (only a propagation constructs it, and
\* none exists after __init__), is constructed at most once, is kept by
\* update, and every propagation, the channel extraction that reads the
\* cached field included, finds it constructed.
C17_LazyOnce ==
    [][/\ output.op = "__init__" => (built = 0 /\ accumulator = "None")
       /\ built' # built => output'.op \in Propagations
       /\ built' <= 1
       /\ accumulator # "None" => accumulator' = accumulator
       /\ output'.op \in Propagations => accumulator' # "None"
       /\ (output'.op = "get_downstream_geojson"
             /\ output'.raised = "AttributeError") =>
              (~output'.include /\
                 \E i \in 1..Len(monitors) :
                     monitors[i].current_event = NoCurrentEvent)]_vars

\* Channels were extracted with the accumulator the propagation had
\* constructed, the only one constructed.
C17_Witness ==
    /\ output.op = "get_downstream_geojson"
    /\ output.raised = "None"
    /\ output.channels # {}
    /\ accumulator = "D8Accumulator"
    /\ built = 1

\* C20: the impacted-node collection has exactly one entry per node whose
\* impact is greater than zero; the names listed for a node are exactly the
\* selected monitors whose source node has the node on its downstream
\* profile, so the length of the list equals the node's impact count, two
\* selected monitors on the same node included.
C20_EntriesAndNames ==
    ( /\ output.op = "get_downstream_info_geojson"
      /\ output.raised = "None" ) =>
        LET impact == _calculate_downstream_impact(monitors, output.include).impact
            chosen == IF output.include THEN Recent(monitors)
                      ELSE Discharging(monitors)
            entries == output.features
        IN  /\ \A node \in Nodes :
                   Cardinality({k \in 1..Len(entries) : entries[k].node = node})
                       = IF impact[node] > 0 THEN 1 ELSE 0
            /\ \A k \in 1..Len(entries) :
                   /\ {entries[k].CSOs[n] : n \in 1..Len(entries[k].CSOs)}
                          = {monitors[i].site_name :
                                i \in Above(entries[k].node, chosen)}
                   /\ Len(entries[k].CSOs) = Cardinality(Above(entries[k].node, chosen))
                   /\ Len(entries[k].CSOs) = entries[k].number_upstream_CSOs

-----------------------------------------------------------------------------
(* WaterCompany: reading the derived views *)

\* The statuses and flags of the monitors whose views are read: the event
\* may be of any type or missing, the flag may be unset.
ViewStatuses ==
    [current_event : {NoCurrentEvent} \cup [ongoing : {TRUE}, event_type : EventTypes],
     discharge_in_last_48h : {"True", "False", "None"}]

\* The fleets whose views are read: all monitors at one site.
ViewFleets == FleetsOf({<<0, 0>>}, ViewStatuses)

\* A WaterCompany whose monitors, all at one site, have been fetched.
InitViews ==
    /\ now = 0 /\ LifeIdle /\ RoundIdle /\ MaskIdle /\ QueryIdle
    /\ monitors \in ViewFleets
    /\ accumulator = "None" /\ built = 0
    /\ output = Out("__init__", FALSE, "None")

\* company.discharging_monitors
ReadDischarging ==
    /\ output' = [Out("discharging_monitors", FALSE,
                      discharging_monitors(monitors).raised)
                    EXCEPT !.value = discharging_monitors(monitors).value]
    /\ UNCHANGED <<now, monitors, accumulator, built, lifeVars, roundVars,
                   maskVars, queryVars>>

\* company.recently_discharging_monitors
ReadRecentlyDischarging ==
    /\ output' = [Out("recently_discharging_monitors", TRUE,
                      recently_discharging_monitors(monitors).raised)
                    EXCEPT !.value = recently_discharging_monitors(monitors).value]
    /\ UNCHANGED <<now, monitors, accumulator, built, lifeVars, roundVars,
                   maskVars, queryVars>>

\* monitor.current_event.ongoing = False on a monitor of the fleet: the
\* event is closed and stays the monitor's current event.
CloseCurrentEvent ==
    \E i \in 1..Len(monitors) :
        /\ monitors[i].current_event.ongoing
        /\ monitors' = [monitors EXCEPT ![i].current_event.ongoing = FALSE]
        /\ output' = Out("ongoing", FALSE, "None")
        /\ UNCHANGED <<now, accumulator, built, lifeVars, roundVars, maskVars,
                       queryVars>>

\* company.update() on the fleet whose views are read.
UpdateViews == update(ViewFleets)

NextViews ==
    \/ ReadDischarging
    \/ ReadRecentlyDischarging
    \/ CloseCurrentEvent
    \/ UpdateViews

SpecViews == InitViews /\ [][NextViews]_vars

\* The monitors a view returned.
Viewed == {output.value[k] : k \in 1..Len(output.value)}

\* C16: in every fleet state, monitors without a current event or with an
\* unknown 48h flag included, the discharging view is exactly the monitors
\* whose current event is an ongoing Discharging event, the recent view is
\* exactly the monitors whose flag is true, and neither read fails.
C16_Views ==
    /\ output.op = "discharging_monitors" =>
           (output.raised = "None" /\ Viewed = Discharging(monitors))
    /\ output.op = "recently_discharging_monitors" =>
           (output.raised = "None" /\ Viewed = Recent(monitors))

-----------------------------------------------------------------------------
(* The resampler: the end of the walk and the order of the history *)

\* The position of the event at which the loop of _history_masks breaks:
\* the first Discharging or Offline event whose rounded-down start precedes
\* the first sample; 0 when there is none.
StoppedAt(hist, ts) ==
    IF \E i \in 1..Len(hist) :
           Positive(hist[i]) /\ round_time_down_15(hist[i].start_time) < ts[1]
      THEN CHOOSE i \in 1..Len(hist) :
               /\ Positive(hist[i])
               /\ round_time_down_15(hist[i].start_time) < ts[1]
               /\ \A j \in 1..(i - 1) :
                      ~(Positive(hist[j]) /\
                          round_time_down_15(hist[j].start_time) < ts[1])
      ELSE 0

\* C18: when the walk stops at an event whose rounded-down start precedes
\* the first sample, that event and every Discharging or Offline event not
\* yet visited lie entirely outside the sampled window: none of them is
\* ongoing and none ends at or after the first sample.
C18_StopSkipsNothing ==
    (Returned /\ Len(history) > 0 /\ StoppedAt(history, times) # 0) =>
        \A j \in StoppedAt(history, times)..Len(history) :
            Positive(history[j]) =>
                /\ ~history[j].ongoing
                /\ history[j].end_time < times[1]

\* The history in the opposite list order.
Reverse(hist) == [i \in 1..Len(hist) |-> hist[Len(hist) + 1 - i]]

\* Whether two events share more than an instant; an ongoing event has no
\* end.
Overlap(a, b) ==
    /\ a.ongoing \/ b.start_time < a.end_time
    /\ b.ongoing \/ a.start_time < b.end_time

\* C19: for a history of pairwise non-overlapping events the returned masks
\* are those of the same events stored in the opposite order (oldest first
\* or newest first); for events that are all Discharging the active samples
\* are the union of the events' ranges [round_down(start), round_up(end)).
C19_OrderIndependent ==
    Returned =>
        /\ (\A i, j \in 1..Len(history) :
                i # j => ~Overlap(history[i], history[j])) =>
               masks = _history_masks(Reverse(history), times)
        /\ (\A i \in 1..Len(history) : history[i].event_type = "Discharging") =>
               \A k \in Samples :
                   masks.active[k] <=>
                       \E i \in 1..Len(history) :
                           /\ round_time_down_15(history[i].start_time) <= times[k]
                           /\ \/ history[i].ongoing
                              \/ times[k] < round_time_up_15(history[i].end_time)

=============================================================================
